---- MODULE Spec2Model ----
(***************************************************************************)
(* Model of the inky-frame UC8159 e-paper driver.                          *)
(*                                                                         *)
(* InkyFrame5_7 (src/display/mod.rs) is straight-line code over four       *)
(* collaborators: the SPI device, the command/data pin, the reset pin and  *)
(* the delay, plus a borrowed busy source.  Every function of the driver   *)
(* is modelled as the sequence of primitive steps it performs, composed    *)
(* the way the code composes its calls; the step actions below execute     *)
(* that sequence one primitive at a time, so that a failing SPI write,     *)
(* a failing pin write and every answer of the busy source are separate    *)
(* transitions.                                                            *)
(*                                                                         *)
(* DisplayInterface (src/display/interface.rs), the chip-select variant,   *)
(* is modelled the same way under its own specification (SpecIface).       *)
(***************************************************************************)
EXTENDS Integers, Sequences, FiniteSets, TLC

VARIABLES
    color,    \* InkyFrame5_7.color: the background colour
    dc,       \* level last driven on the command/data pin (0 low, 1 high)
    rst,      \* level last driven on the reset pin
    cs,       \* level last driven on the chip-select pin (DisplayInterface only)
    op,       \* the operation being executed, or the last one executed
    arg,      \* its buffer argument (<<>> when it has none)
    todo,     \* the primitive steps the operation still has to perform
    result,   \* "Running", "Ok" (returned normally) or "Err" (returned Err(e))
    trace,    \* what the collaborators have seen since the operation was called
    lineErr,  \* some pin write of this operation returned Err
    asleep,   \* history: sleep() has returned Ok and wake_up() has not since
    lastSet,  \* history: the colour last passed to set_background_color
    reg,      \* InkyFrameShiftRegister::read_register: its local `result`
    ret,      \* the value the last call of a function returned
    display_buffer, \* InkyFrameDisplay.buffer
    rotation, \* InkyFrameDisplay.rotation
    calls     \* number of calls made on the InkyFrameDisplay so far

\* the variables the two drivers never touch
pureVars == <<reg, ret, display_buffer, rotation, calls>>

vars == <<color, dc, rst, cs, op, arg, todo, result, trace, lineErr, asleep, lastSet,
          reg, ret, display_buffer, rotation, calls>>

(***************************************************************************)
(* Bounds of the model.                                                    *)
(***************************************************************************)
\* Number of frame bytes clear_frame streams and a full frame buffer holds.
\* The code's value is WIDTH / 2 * HEIGHT = 134400.
FrameLen == 3

(***************************************************************************)
(* Program constants.                                                      *)
(***************************************************************************)
WIDTH == 600
HEIGHT == 448
DEFAULT_BACKGROUND_COLOR == "White"

OctColor == {"Black", "White", "Green", "Blue", "Red", "Yellow", "Orange", "HiZ"}

\* u8 arithmetic
Bit(x, i) == (x \div (2 ^ i)) % 2
OrBit(a, b, i) == IF Bit(a, i) = 1 \/ Bit(b, i) = 1 THEN 2 ^ i ELSE 0
AndBit(a, b, i) == IF Bit(a, i) = 1 /\ Bit(b, i) = 1 THEN 2 ^ i ELSE 0
U8Or(a, b) ==
    OrBit(a, b, 0) + OrBit(a, b, 1) + OrBit(a, b, 2) + OrBit(a, b, 3)
    + OrBit(a, b, 4) + OrBit(a, b, 5) + OrBit(a, b, 6) + OrBit(a, b, 7)
U8And(a, b) ==
    AndBit(a, b, 0) + AndBit(a, b, 1) + AndBit(a, b, 2) + AndBit(a, b, 3)
    + AndBit(a, b, 4) + AndBit(a, b, 5) + AndBit(a, b, 6) + AndBit(a, b, 7)
U8Shl(x, n) == (x * (2 ^ n)) % 256
Shr(x, n) == x \div (2 ^ n)
AsU8(x) == x % 256

\* OctColor::get_nibble: the enum discriminant
get_nibble(c) ==
    CASE c = "Black"  -> 0
      [] c = "White"  -> 1
      [] c = "Green"  -> 2
      [] c = "Blue"   -> 3
      [] c = "Red"    -> 4
      [] c = "Yellow" -> 5
      [] c = "Orange" -> 6
      [] c = "HiZ"    -> 7

\* OctColor::colors_byte
colors_byte(a, b) == U8Or(U8Shl(get_nibble(a), 4), get_nibble(b))

\* Command::address: the enum discriminant of the commands the drivers send
address(c) ==
    CASE c = "PanelSetting"               -> 0
      [] c = "PowerSetting"               -> 1
      [] c = "PowerOff"                   -> 2
      [] c = "PowerOffSequenceSetting"    -> 3
      [] c = "PowerOn"                    -> 4
      [] c = "BoosterSoftStart"           -> 6
      [] c = "DeepSleep"                  -> 7
      [] c = "DataStartTransmission1"     -> 16
      [] c = "DataStop"                   -> 17
      [] c = "DisplayRefresh"             -> 18
      [] c = "PllControl"                 -> 48
      [] c = "TemperatureSensor"          -> 64
      [] c = "VcomAndDataIntervalSetting" -> 80
      [] c = "TconSetting"                -> 96
      [] c = "TconResolution"             -> 97
      [] c = "FlashMode"                  -> 227

(***************************************************************************)
(* Primitive steps.  A step is <<kind, x, role>>:                          *)
(*   <<"rst", level, "">>      rst.set_low() / rst.set_high()              *)
(*   <<"dc", level, "">>       dc.set_low() / dc.set_high()                *)
(*   <<"cs", level, "">>       cs.set_low() / cs.set_high()                *)
(*   <<"delay", ms, "">>       delay.delay_ms(ms)                          *)
(*   <<"busy_wait", 0, "">>    while busy_signal.is_busy() {}              *)
(*   <<"spi", data, role>>     spi.write(data)?                            *)
(* role names the function that issued the write ("cmd" for command/cmd,   *)
(* "data" for send_data/data/data_x_times); no action reads it, it is only *)
(* recorded in the trace.                                                  *)
(***************************************************************************)
RECURSIVE Concat(_)
Concat(ss) == IF ss = <<>> THEN <<>> ELSE Head(ss) \o Concat(Tail(ss))

\* InkyFrame5_7::write
write(data, role) == << <<"spi", data, role>> >>

\* busy_wait that gives up without polling
busy_wait_noPoll == <<>>

\* InkyFrame5_7::busy_wait
busy_wait == << <<"busy_wait", 0, "">> >>

\* InkyFrame5_7::reset
reset ==
    << <<"rst", 0, "">>, <<"delay", 10, "">>, <<"rst", 1, "">>, <<"delay", 10, "">> >>
    \o busy_wait

\* command that leaves the command/data line as it is
command_keepsLine(c) == write(<<address(c)>>, "cmd")

\* InkyFrame5_7::command
command(c) == << <<"dc", 0, "">> >> \o write(<<address(c)>>, "cmd")

\* InkyFrame5_7::send_data
send_data(data) ==
    << <<"dc", 1, "">> >> \o Concat([i \in 1..Len(data) |-> write(<<data[i]>>, "data")])

\* InkyFrame5_7::data_x_times
data_x_times(val, repetitions) ==
    << <<"dc", 1, "">> >> \o Concat([i \in 1..repetitions |-> write(<<val>>, "data")])

\* InkyFrame5_7::cmd_with_data
cmd_with_data(c, data) == command(c) \o send_data(data)

\* InkyFrame5_7::send_resolution
send_resolution ==
    command("TconResolution")
    \o send_data(<<AsU8(Shr(WIDTH, 8))>>)
    \o send_data(<<AsU8(WIDTH)>>)
    \o send_data(<<AsU8(Shr(HEIGHT, 8))>>)
    \o send_data(<<AsU8(HEIGHT)>>)

\* update_vcom that folds the colour code in one bit too low
update_vcom_shift4(bg) ==
    cmd_with_data("VcomAndDataIntervalSetting",
                  <<U8Or(23, U8Shl(U8And(get_nibble(bg), 7), 4))>>)

\* InkyFrame5_7::update_vcom
update_vcom(bg) ==
    cmd_with_data("VcomAndDataIntervalSetting",
                  <<U8Or(23, U8Shl(U8And(get_nibble(bg), 7), 5))>>)

\* init that does not resend the Vcom/data-interval setting after FlashMode
init_noResend ==
    reset
    \o busy_wait
    \o cmd_with_data("PanelSetting", <<239, 8>>)
    \o cmd_with_data("PowerSetting", <<55, 0, 35, 35>>)
    \o cmd_with_data("PowerOffSequenceSetting", <<0>>)
    \o cmd_with_data("BoosterSoftStart", <<199, 199, 29>>)
    \o cmd_with_data("PllControl", <<60>>)
    \o cmd_with_data("TemperatureSensor", <<0>>)
    \o cmd_with_data("VcomAndDataIntervalSetting", <<55>>)
    \o cmd_with_data("TconSetting", <<34>>)
    \o send_resolution
    \o cmd_with_data("FlashMode", <<170>>)
    \o << <<"delay", 10, "">> >>

\* InkyFrame5_7::init
init ==
    reset
    \o busy_wait
    \o cmd_with_data("PanelSetting", <<239, 8>>)
    \o cmd_with_data("PowerSetting", <<55, 0, 35, 35>>)
    \o cmd_with_data("PowerOffSequenceSetting", <<0>>)
    \o cmd_with_data("BoosterSoftStart", <<199, 199, 29>>)
    \o cmd_with_data("PllControl", <<60>>)
    \o cmd_with_data("TemperatureSensor", <<0>>)
    \o cmd_with_data("VcomAndDataIntervalSetting", <<55>>)
    \o cmd_with_data("TconSetting", <<34>>)
    \o send_resolution
    \o cmd_with_data("FlashMode", <<170>>)
    \o << <<"delay", 10, "">> >>
    \o cmd_with_data("VcomAndDataIntervalSetting", <<55>>)

\* InkyFrame5_7::power_off
power_off == command("PowerOff")

\* wake_up that sends the table to a panel it has not reset
wake_up_noReset == SubSeq(init, Len(reset) + 1, Len(init))

\* InkyFrame5_7::wake_up
wake_up == init

\* sleep that sends the command without its check byte
sleep_noCheck == command("DeepSleep")

\* InkyFrame5_7::sleep
sleep == cmd_with_data("DeepSleep", <<165>>)

\* InkyFrame5_7::update_frame
update_frame(bg, buffer) ==
    busy_wait
    \o update_vcom(bg)
    \o send_resolution
    \o cmd_with_data("DataStartTransmission1", buffer)
    \o command("DataStop")

\* display_frame that does not wait between PowerOn and DisplayRefresh
display_frame_noWait ==
    busy_wait
    \o command("PowerOn")
    \o command("DisplayRefresh")
    \o busy_wait
    \o command("PowerOff")
    \o busy_wait

\* InkyFrame5_7::display_frame
display_frame ==
    busy_wait
    \o command("PowerOn")
    \o busy_wait
    \o command("DisplayRefresh")
    \o busy_wait
    \o command("PowerOff")
    \o busy_wait

\* InkyFrame5_7::update_and_display_frame
update_and_display_frame(bg, buffer) == update_frame(bg, buffer) \o display_frame

\* InkyFrame5_7::clear_frame (the repetition count WIDTH / 2 * HEIGHT is FrameLen here)
clear_frame(bg) ==
    busy_wait
    \o update_vcom(bg)
    \o send_resolution
    \o command("DataStartTransmission1")
    \o data_x_times(colors_byte(bg, bg), FrameLen)
    \o display_frame

\* The steps of public operation o called with background bg and buffer b.
Body(o, bg, b) ==
    CASE o = "new"                      -> init
      [] o = "wake_up"                  -> wake_up
      [] o = "power_off"                -> power_off
      [] o = "sleep"                    -> sleep
      [] o = "reset"                    -> reset
      [] o = "update_frame"             -> update_frame(bg, b)
      [] o = "display_frame"            -> display_frame
      [] o = "update_and_display_frame" -> update_and_display_frame(bg, b)
      [] o = "clear_frame"              -> clear_frame(bg)
      [] OTHER                          -> <<>>

(***************************************************************************)
(* Inputs.                                                                 *)
(***************************************************************************)
\* A frame buffer holding one colour.
FillBuffer(c) == [i \in 1..FrameLen |-> colors_byte(c, c)]

\* The buffers a caller passes to update_frame: the buffer filled with the
\* background, an empty slice, and two buffers of distinct bytes.
Buffers(bg) == {FillBuffer(bg), <<>>, <<1, 35>>, <<69, 103, 2>>}

(***************************************************************************)
(* The trace.  An event is <<kind, x, y, role>>:                           *)
(*   <<"rst", level, 0, "">>, <<"delay", ms, 0, "">>                       *)
(*   <<"poll", b, 0, "">>       is_busy() answered busy (b = 1) or not (0) *)
(*   <<"w", dcLevel, byte, role>>     a byte the SPI device accepted       *)
(*   <<"werr", dcLevel, byte, role>>  a write the SPI device refused       *)
(* Consecutive busy answers are recorded once.                             *)
(***************************************************************************)
Last(s) == s[Len(s)]

Record(tr, e) == IF tr # <<>> /\ Last(tr) = e /\ e[1] = "poll" /\ e[2] = 1
                 THEN tr
                 ELSE Append(tr, e)

\* a write whose error is dropped: the operation carries on
OnWriteErr_carryOn(rest) == rest

\* What the operation does with the steps it has left when spi.write fails:
\* the ? operator returns from every enclosing function.
OnWriteErr(rest) == <<>>

(***************************************************************************)
(* InkyFrame5_7: state after the struct is built in new(), before init.    *)
(***************************************************************************)
Init ==
    /\ color = DEFAULT_BACKGROUND_COLOR
    /\ dc \in {0, 1}
    /\ rst \in {0, 1}
    /\ cs = 1
    /\ op = "new"
    /\ arg = <<>>
    /\ todo = init
    /\ result = "Running"
    /\ trace = <<>>
    /\ lineErr = FALSE
    /\ asleep = FALSE
    /\ lastSet = DEFAULT_BACKGROUND_COLOR
    /\ reg = 0
    /\ ret = <<>>
    /\ display_buffer = <<>>
    /\ rotation = "Rotate0"
    /\ calls = 0

\* The driver exists and no operation is in progress.
Idle == result # "Running" /\ ~(op = "new" /\ result = "Err")

Call(o, b) ==
    /\ Idle
    /\ op' = o
    /\ arg' = b
    /\ todo' = Body(o, color, b)
    /\ result' = "Running"
    /\ trace' = <<>>
    /\ lineErr' = FALSE
    /\ UNCHANGED <<color, dc, rst, cs, asleep, lastSet, pureVars>>

PowerOff == Call("power_off", <<>>)
WakeUp == Call("wake_up", <<>>)
Sleep == Call("sleep", <<>>)
Reset == Call("reset", <<>>)
DisplayFrame == Call("display_frame", <<>>)
ClearFrame == Call("clear_frame", <<>>)
UpdateFrame == \E b \in Buffers(color) : Call("update_frame", b)
UpdateAndDisplayFrame == \E b \in Buffers(color) : Call("update_and_display_frame", b)

\* set_background_color that keeps a colour set earlier
set_background_color_firstWins(old, c) == IF old = DEFAULT_BACKGROUND_COLOR THEN c ELSE old

\* InkyFrame5_7::set_background_color: the new value of self.color
set_background_color(old, c) == c

SetBackgroundColor ==
    /\ Idle
    /\ \E c \in OctColor : color' = set_background_color(color, c) /\ lastSet' = c
    /\ op' = "set_background_color"
    /\ arg' = <<>>
    /\ todo' = <<>>
    /\ result' = "Ok"
    /\ trace' = <<>>
    /\ lineErr' = FALSE
    /\ UNCHANGED <<dc, rst, cs, asleep, pureVars>>

Running == result = "Running" /\ todo # <<>>

\* let _ = self.rst.set_low() / set_high(): the Result is dropped
SetRst ==
    /\ Running
    /\ Head(todo)[1] = "rst"
    /\ \E ok \in BOOLEAN : lineErr' = (lineErr \/ ~ok)
    /\ rst' = Head(todo)[2]
    /\ trace' = Record(trace, <<"rst", Head(todo)[2], 0, "">>)
    /\ todo' = Tail(todo)
    /\ UNCHANGED <<color, dc, cs, op, arg, result, asleep, lastSet, pureVars>>

\* let _ = self.dc.set_low() / set_high(): the Result is dropped
SetDc ==
    /\ Running
    /\ Head(todo)[1] = "dc"
    /\ \E ok \in BOOLEAN : lineErr' = (lineErr \/ ~ok)
    /\ dc' = Head(todo)[2]
    /\ todo' = Tail(todo)
    /\ UNCHANGED <<color, rst, cs, op, arg, result, trace, asleep, lastSet, pureVars>>

\* self.delay.delay_ms(n)
Delay ==
    /\ Running
    /\ Head(todo)[1] = "delay"
    /\ trace' = Record(trace, <<"delay", Head(todo)[2], 0, "">>)
    /\ todo' = Tail(todo)
    /\ UNCHANGED <<color, dc, rst, cs, op, arg, result, lineErr,
                 asleep, lastSet, pureVars>>

\* busy_wait: is_busy() answered true, the loop polls again
BusyWaitBusy ==
    /\ Running
    /\ Head(todo)[1] = "busy_wait"
    /\ trace' = Record(trace, <<"poll", 1, 0, "">>)
    /\ UNCHANGED <<color, dc, rst, cs, op, arg, todo, result, lineErr,
                 asleep, lastSet, pureVars>>

\* busy_wait: is_busy() answered false, the loop ends
BusyWaitIdle ==
    /\ Running
    /\ Head(todo)[1] = "busy_wait"
    /\ trace' = Record(trace, <<"poll", 0, 0, "">>)
    /\ todo' = Tail(todo)
    /\ UNCHANGED <<color, dc, rst, cs, op, arg, result, lineErr,
                 asleep, lastSet, pureVars>>

\* write: spi.write(data) returned Ok
SpiWriteOk ==
    /\ Running
    /\ Head(todo)[1] = "spi"
    /\ trace' = trace \o [i \in 1..Len(Head(todo)[2]) |->
                            <<"w", dc, Head(todo)[2][i], Head(todo)[3]>>]
    /\ todo' = Tail(todo)
    /\ UNCHANGED <<color, dc, rst, cs, op, arg, result, lineErr,
                 asleep, lastSet, pureVars>>

\* write: spi.write(data) returned Err, which ? hands to the caller
SpiWriteErr ==
    /\ Running
    /\ Head(todo)[1] = "spi"
    /\ trace' = Append(trace, <<"werr", dc, Head(todo)[2][1], Head(todo)[3]>>)
    /\ todo' = OnWriteErr(Tail(todo))
    /\ result' = IF todo' = <<>> THEN "Err" ELSE result
    /\ UNCHANGED <<color, dc, rst, cs, op, arg, lineErr, asleep, lastSet, pureVars>>

\* the operation reaches its end and returns Ok(..) (reset returns ())
Return ==
    /\ result = "Running"
    /\ todo = <<>>
    /\ result' = "Ok"
    /\ asleep' = (IF op = "sleep" THEN TRUE ELSE IF op = "wake_up" THEN FALSE ELSE asleep)
    /\ UNCHANGED <<color, dc, rst, cs, op, arg, todo, trace, lineErr, lastSet, pureVars>>

Step == SetRst \/ SetDc \/ Delay \/ SpiWriteOk \/ SpiWriteErr \/ Return

Next ==
    \/ PowerOff
    \/ WakeUp
    \/ Sleep
    \/ Reset
    \/ DisplayFrame
    \/ ClearFrame
    \/ UpdateFrame
    \/ UpdateAndDisplayFrame
    \/ SetBackgroundColor
    \/ SetRst
    \/ SetDc
    \/ Delay
    \/ BusyWaitBusy
    \/ BusyWaitIdle
    \/ SpiWriteOk
    \/ SpiWriteErr
    \/ Return

Spec == Init /\ [][Next]_vars

\* The driver's code always takes its next step, and the panel eventually
\* stops being busy.
FairSpec == Spec /\ WF_vars(Step) /\ WF_vars(BusyWaitIdle)

(***************************************************************************)
(* DisplayInterface (interface.rs): the variant that drives chip-select    *)
(* itself and has no busy source.                                          *)
(***************************************************************************)
\* Largest repetition count passed to DisplayInterface::data_x_times.
MaxReps == 2

\* DisplayInterface::write
DI_write(data, role) ==
    << <<"cs", 0, "">>, <<"spi", data, role>>, <<"cs", 1, "">> >>

\* DisplayInterface::cmd
DI_cmd(c) == << <<"dc", 0, "">> >> \o DI_write(<<address(c)>>, "cmd")

\* DisplayInterface::data
DI_data(data) ==
    << <<"dc", 1, "">> >> \o Concat([i \in 1..Len(data) |-> DI_write(<<data[i]>>, "data")])

\* DisplayInterface::cmd_with_data
DI_cmd_with_data(c, data) == DI_cmd(c) \o DI_data(data)

\* DisplayInterface::data_x_times
DI_data_x_times(val, repetitions) ==
    << <<"dc", 1, "">> >> \o Concat([i \in 1..repetitions |-> DI_write(<<val>>, "data")])

\* DisplayInterface::wait_until_idle: while self.is_busy(timeout, delay) {}
DI_wait_until_idle(timeout) == << <<"wait_until_idle", timeout, "">> >>

\* DisplayInterface::is_busy: the value it returns after its delay
DI_is_busy == TRUE

\* DisplayInterface::reset
DI_reset ==
    << <<"rst", 0, "">>, <<"delay", 10, "">>, <<"rst", 1, "">>, <<"delay", 10, "">> >>
    \o DI_wait_until_idle(200)

IfaceCommands == {"PowerOn", "DataStop", "DataStartTransmission1"}
IfacePayloads == {<<>>, <<1>>, <<1, 35>>}

\* State after DisplayInterface::new, which touches no pin.
IfaceInit ==
    /\ color = DEFAULT_BACKGROUND_COLOR
    /\ dc \in {0, 1}
    /\ rst \in {0, 1}
    /\ cs \in {0, 1}
    /\ op = "new"
    /\ arg = <<>>
    /\ todo = <<>>
    /\ result = "Ok"
    /\ trace = <<>>
    /\ lineErr = FALSE
    /\ asleep = FALSE
    /\ lastSet = DEFAULT_BACKGROUND_COLOR
    /\ reg = 0
    /\ ret = <<>>
    /\ display_buffer = <<>>
    /\ rotation = "Rotate0"
    /\ calls = 0

IfaceCall(o, b, steps) ==
    /\ result # "Running"
    /\ op' = o
    /\ arg' = b
    /\ todo' = steps
    /\ result' = "Running"
    /\ trace' = <<>>
    /\ lineErr' = FALSE
    /\ UNCHANGED <<color, dc, rst, cs, asleep, lastSet, pureVars>>

IfaceCmd == \E c \in IfaceCommands : IfaceCall("cmd", <<>>, DI_cmd(c))
IfaceSendData == \E d \in IfacePayloads : IfaceCall("data", d, DI_data(d))
IfaceCmdWithData ==
    \E c \in IfaceCommands, d \in IfacePayloads :
        IfaceCall("cmd_with_data", d, DI_cmd_with_data(c, d))
IfaceDataXTimes ==
    \E n \in 0..MaxReps : IfaceCall("data_x_times", <<>>, DI_data_x_times(17, n))
IfaceReset == IfaceCall("reset", <<>>, DI_reset)

\* let _ = self.cs.set_low() / set_high(): the Result is dropped
SetCs ==
    /\ Running
    /\ Head(todo)[1] = "cs"
    /\ \E ok \in BOOLEAN : lineErr' = (lineErr \/ ~ok)
    /\ cs' = Head(todo)[2]
    /\ todo' = Tail(todo)
    /\ UNCHANGED <<color, dc, rst, op, arg, result, trace, asleep, lastSet, pureVars>>

\* wait_until_idle evaluates its loop condition: it calls is_busy
WaitUntilIdle ==
    /\ Running
    /\ Head(todo)[1] = "wait_until_idle"
    /\ todo' = << <<"is_busy", Head(todo)[2], "">> >> \o todo
    /\ UNCHANGED <<color, dc, rst, cs, op, arg, result, trace, lineErr,
                 asleep, lastSet, pureVars>>

\* is_busy delays and returns; the loop goes round again when it returned
\* true and ends when it returned false
IsBusy ==
    /\ Running
    /\ Head(todo)[1] = "is_busy"
    /\ trace' = Record(trace, <<"poll", IF DI_is_busy THEN 1 ELSE 0, Head(todo)[2], "">>)
    /\ todo' = IF DI_is_busy THEN Tail(todo) ELSE Tail(Tail(todo))
    /\ UNCHANGED <<color, dc, rst, cs, op, arg, result, lineErr,
                 asleep, lastSet, pureVars>>

IfaceStep ==
    SetRst \/ SetDc \/ SetCs \/ Delay \/ SpiWriteOk \/ SpiWriteErr
    \/ WaitUntilIdle \/ IsBusy \/ Return

IfaceNext ==
    \/ IfaceCmd
    \/ IfaceSendData
    \/ IfaceCmdWithData
    \/ IfaceDataXTimes
    \/ IfaceReset
    \/ SetRst
    \/ SetDc
    \/ SetCs
    \/ Delay
    \/ SpiWriteOk
    \/ SpiWriteErr
    \/ WaitUntilIdle
    \/ IsBusy
    \/ Return

SpecIface == IfaceInit /\ [][IfaceNext]_vars

\* The interface's code always takes its next step.
FairSpecIface == SpecIface /\ WF_vars(IfaceStep)

(***************************************************************************)
(* Reading the trace.                                                      *)
(***************************************************************************)
IsPrefix(s, t) == Len(s) <= Len(t) /\ \A i \in 1..Len(s) : s[i] = t[i]

IsWrite(e) == e[1] = "w"
IsWriteErr(e) == e[1] = "werr"
IsBusyPoll(e) == e[1] = "poll" /\ e[2] = 1
IdlePoll == <<"poll", 0, 0, "">>
BusyPoll == <<"poll", 1, 0, "">>

\* The trace without the busy answers and without the refused write.
Done(tr) == SelectSeq(tr, LAMBDA e : ~IsBusyPoll(e) /\ ~IsWriteErr(e))

\* An event as the panel sees it: <<kind, x, role>>, the level of the
\* command/data line left out.
ObsEvent(e) == IF e[1] \in {"w", "werr"} THEN <<e[1], e[3], e[4]>> ELSE <<e[1], e[2], "">>
Obs(tr) == [i \in 1..Len(tr) |-> ObsEvent(tr[i])]

\* The bytes the SPI device accepted, each with the role of its writer.
Wire(tr) == LET w == SelectSeq(tr, IsWrite) IN [i \in 1..Len(w) |-> <<w[i][4], w[i][3]>>]

\* A command byte followed by its payload, on the wire.
Frame(opcode, payload) ==
    << <<"cmd", opcode>> >> \o [i \in 1..Len(payload) |-> <<"data", payload[i]>>]

\* The same as observed events.
ObsFrame(opcode, payload) ==
    << <<"w", opcode, "cmd">> >> \o [i \in 1..Len(payload) |-> <<"w", payload[i], "data">>]

\* What the panel sees of a sequence of steps when every write succeeds
\* and every poll finds the panel idle.
RunOf(steps) ==
    LET seen == SelectSeq(steps, LAMBDA st : st[1] \in {"spi", "busy_wait", "rst", "delay"})
    IN  [i \in 1..Len(seen) |->
            CASE seen[i][1] = "spi"       -> <<"w", seen[i][2][1], seen[i][3]>>
              [] seen[i][1] = "busy_wait" -> <<"poll", 0, "">>
              [] OTHER                    -> <<seen[i][1], seen[i][2], "">>]

HasWriteErr(tr) == \E i \in 1..Len(tr) : IsWriteErr(tr[i])
HasIdlePoll(tr) == \E i \in 1..Len(tr) : tr[i] = IdlePoll
HasByte(tr) == \E i \in 1..Len(tr) : IsWrite(tr[i]) \/ IsWriteErr(tr[i])

(***************************************************************************)
(* C1: initialize() (run by new() and by wake_up()) resets, busy-waits and *)
(* then writes exactly the initialization table, in order, and writes no   *)
(* byte before the reset pulse and the busy-wait have completed.           *)
(***************************************************************************)
InitTable ==
    << <<0,   <<239, 8>>>>,
       <<1,   <<55, 0, 35, 35>>>>,
       <<3,   <<0>>>>,
       <<6,   <<199, 199, 29>>>>,
       <<48,  <<60>>>>,
       <<64,  <<0>>>>,
       <<80,  <<55>>>>,
       <<96,  <<34>>>>,
       <<97,  <<2, 88, 1, 192>>>>,
       <<227, <<170>>>>,
       <<80,  <<55>>>> >>

InitWire == Concat([i \in 1..Len(InitTable) |-> Frame(InitTable[i][1], InitTable[i][2])])

ResetThenWait ==
    << <<"rst", 0, 0, "">>, <<"delay", 10, 0, "">>, <<"rst", 1, 0, "">>,
       <<"delay", 10, 0, "">>, IdlePoll, IdlePoll >>

C1_InitSequence ==
    op \in {"new", "wake_up"} =>
        /\ IsPrefix(Wire(trace), InitWire)
        /\ result = "Ok" => Wire(trace) = InitWire
        /\ HasByte(trace) =>
              IsPrefix(ResetThenWait, SelectSeq(trace, LAMBDA e : ~IsBusyPoll(e)))

C1_Witness == op = "new" /\ result = "Ok" /\ Len(Wire(trace)) = 31 /\ trace[1][1] = "rst"

(***************************************************************************)
(* C2: at every byte written, the command/data line is low exactly when    *)
(* the byte is a command opcode and high exactly when it is a payload      *)
(* byte, whatever the sequence of operations.                              *)
(***************************************************************************)
C2_DcMatchesRole ==
    \A i \in 1..Len(trace) :
        (IsWrite(trace[i]) \/ IsWriteErr(trace[i])) =>
            /\ trace[i][2] = 0 <=> trace[i][4] = "cmd"
            /\ trace[i][2] = 1 <=> trace[i][4] = "data"

\* DataStop, a command without payload, right after the last payload byte.
C2_Witness ==
    /\ op = "update_frame" /\ result = "Ok" /\ Len(trace) >= 2
    /\ Last(trace) = <<"w", 0, 17, "cmd">>
    /\ trace[Len(trace) - 1][4] = "data" /\ trace[Len(trace) - 1][2] = 1

(***************************************************************************)
(* C3: display_frame() is busy-wait, PowerOn, busy-wait, DisplayRefresh,   *)
(* busy-wait, PowerOff, busy-wait: every command directly follows a poll   *)
(* that answered not-busy, no payload is sent, and Ok is returned only     *)
(* after the poll that follows PowerOff answered not-busy.                 *)
(***************************************************************************)
DisplaySeq ==
    << <<"poll", 0, "">>, <<"w", 4, "cmd">>, <<"poll", 0, "">>, <<"w", 18, "cmd">>,
       <<"poll", 0, "">>, <<"w", 2, "cmd">>, <<"poll", 0, "">> >>

C3_DisplayFrame ==
    op = "display_frame" =>
        /\ IsPrefix(Obs(Done(trace)), DisplaySeq)
        /\ result = "Ok" => Obs(Done(trace)) = DisplaySeq
        /\ \A i \in 1..Len(trace) :
              (IsWrite(trace[i]) \/ IsWriteErr(trace[i])) => i > 1 /\ trace[i - 1] = IdlePoll

C3_Witness ==
    /\ op = "display_frame" /\ result = "Ok"
    /\ \E i \in 1..Len(trace) : trace[i] = BusyPoll

(***************************************************************************)
(* C4: update_frame(buffer) is a busy-wait, Vcom (0x50) with the byte      *)
(* 0x17 | ((code(background) & 7) << 5), TconResolution (0x61) with width  *)
(* and height high byte first, DataStartTransmission1 (0x10) with the      *)
(* buffer in index order, and DataStop (0x11) without payload.             *)
(***************************************************************************)
UpdateSeq(bg, buffer) ==
    << <<"poll", 0, "">> >>
    \o ObsFrame(80, <<23 + 32 * (get_nibble(bg) % 8)>>)
    \o ObsFrame(97, <<WIDTH \div 256, WIDTH % 256, HEIGHT \div 256, HEIGHT % 256>>)
    \o ObsFrame(16, buffer)
    \o ObsFrame(17, <<>>)

C4_UpdateFrame ==
    op = "update_frame" =>
        /\ IsPrefix(Obs(Done(trace)), UpdateSeq(color, arg))
        /\ result = "Ok" => Obs(Done(trace)) = UpdateSeq(color, arg)

C4_Witness ==
    /\ op = "update_frame" /\ result = "Ok" /\ arg = <<69, 103, 2>> /\ color = "Orange"
    /\ Wire(trace)[2] = <<"data", 215>>

(***************************************************************************)
(* C5: clear_frame() puts on the wire what update_frame with a buffer of   *)
(* pack(background, background) bytes followed by display_frame() puts     *)
(* there, the data-stop command before power-on included.                  *)
(***************************************************************************)
C5_ClearFrameEquivalent ==
    (op = "clear_frame" /\ result = "Ok") =>
        Obs(Done(trace)) = RunOf(update_frame(color, FillBuffer(color)) \o display_frame)

(***************************************************************************)
(* C6: when a bus write fails the operation returns that error at once:    *)
(* nothing is written or polled afterwards, the write is not retried, and  *)
(* what was done before is a prefix of what the operation does when every  *)
(* write succeeds, the refused byte being the next one of it.              *)
(***************************************************************************)
SuccessRun == RunOf(Body(op, color, arg))

C6_WriteErrorStops ==
    /\ HasWriteErr(trace) => result = "Err"
    /\ result = "Err" =>
          /\ todo = <<>>
          /\ trace # <<>> /\ IsWriteErr(Last(trace))
          /\ ~HasWriteErr(SubSeq(trace, 1, Len(trace) - 1))
          /\ Len(Done(trace)) < Len(SuccessRun)
          /\ IsPrefix(Obs(Done(trace)), SuccessRun)
          /\ SuccessRun[Len(Done(trace)) + 1] = <<"w", Last(trace)[3], Last(trace)[4]>>
    /\ (op = "update_and_display_frame" /\ result = "Err"
            /\ <<"cmd", 17>> \notin {Wire(trace)[i] : i \in 1..Len(Wire(trace))})
          => <<"cmd", 4>> \notin {Wire(trace)[i] : i \in 1..Len(Wire(trace))}

C6_Witness ==
    /\ op = "update_and_display_frame" /\ result = "Err"
    /\ Last(trace) = <<"werr", 1, 103, "data">>

(***************************************************************************)
(* C7: a failed write to the command/data line or to the reset line makes  *)
(* the operation return an error.                                          *)
(***************************************************************************)
C7_LineFailureSurfaced == lineErr => result # "Ok"

(***************************************************************************)
(* C8: reset() drives the reset line low, delays, drives it high, delays,  *)
(* polls until not-busy, writes no byte, and returns once the device has   *)
(* stopped being busy; for InkyFrame5_7::reset and DisplayInterface::reset.*)
(***************************************************************************)
ResetPulse ==
    << <<"rst", 0, 0, "">>, <<"delay", 10, 0, "">>, <<"rst", 1, 0, "">>,
       <<"delay", 10, 0, "">> >>

C8_ResetShape ==
    op = "reset" =>
        /\ ~HasByte(trace)
        /\ \/ IsPrefix(trace, ResetPulse)
           \/ /\ IsPrefix(ResetPulse, trace)
              /\ \A i \in 5..Len(trace) : trace[i][1] = "poll"
        /\ result = "Ok" => Len(trace) > 4 /\ Last(trace)[1] = "poll" /\ Last(trace)[2] = 0

C8_ResetReturns ==
    /\ [](C8_ResetShape)
    /\ (op = "reset" /\ result = "Running") ~> (op = "reset" /\ result = "Ok")

(***************************************************************************)
(* C9: as long as every poll has answered busy, reset(), update_frame(),   *)
(* display_frame() and clear_frame() have not returned and have written no *)
(* byte.                                                                   *)
(***************************************************************************)
C9_BusyWaitNoTimeout ==
    (op \in {"reset", "update_frame", "display_frame", "clear_frame"} /\ ~HasIdlePoll(trace))
        => result = "Running" /\ ~HasByte(trace)

C9_Witness ==
    /\ op = "clear_frame" /\ result = "Running"
    /\ trace = <<BusyPoll>>

(***************************************************************************)
(* C10: sleep() writes DeepSleep (0x07) with the command line low, then    *)
(* 0xA5 with the line high, once each, and does nothing else.              *)
(***************************************************************************)
SleepTrace == << <<"w", 0, 7, "cmd">>, <<"w", 1, 165, "data">> >>

C10_Sleep ==
    op = "sleep" =>
        /\ IsPrefix(SelectSeq(trace, LAMBDA e : ~IsWriteErr(e)), SleepTrace)
        /\ result = "Ok" => trace = SleepTrace

C10_Witness == op = "sleep" /\ result = "Ok" /\ Len(trace) = 2

(***************************************************************************)
(* C11: wake_up() is equivalent to initialize(): from any driver state,    *)
(* after sleep() and after set_background_color included, it produces the  *)
(* trace of init, that is the reset pulse, the busy-wait and then the       *)
(* complete initialization table.                                          *)
(***************************************************************************)
InitRun ==
    << <<"rst", 0, "">>, <<"delay", 10, "">>, <<"rst", 1, "">>, <<"delay", 10, "">>,
       <<"poll", 0, "">>, <<"poll", 0, "">> >>
    \o Concat([i \in 1..10 |-> ObsFrame(InitTable[i][1], InitTable[i][2])])
    \o << <<"delay", 10, "">> >>
    \o ObsFrame(InitTable[11][1], InitTable[11][2])

C11_WakeUpIsInit ==
    /\ RunOf(init) = InitRun
    /\ op = "wake_up" =>
          /\ IsPrefix(Obs(Done(trace)), RunOf(init))
          /\ result = "Ok" => Obs(Done(trace)) = RunOf(init)

C11_Witness ==
    /\ op = "wake_up" /\ result = "Running" /\ todo = <<>>
    /\ asleep /\ color # DEFAULT_BACKGROUND_COLOR
    /\ Obs(Done(trace)) = InitRun

(***************************************************************************)
(* C12: set_background_color(c) writes nothing on the bus, toggles no line *)
(* and polls nothing; it changes only the stored background colour; the    *)
(* Vcom/data-interval byte of the next update_frame, and the fill byte and *)
(* Vcom byte of the next clear_frame, are computed from c; of several      *)
(* calls before an update the last colour set is the one used.             *)
(***************************************************************************)
\* The bytes a frame operation computes from the colour last set.
VcomByteOf(c) == 23 + 32 * (get_nibble(c) % 8)
FillByteOf(c) == 16 * get_nibble(c) + get_nibble(c)

C12_ColourInUse ==
    /\ op = "set_background_color" =>
          trace = <<>> /\ todo = <<>> /\ result = "Ok" /\ ~lineErr /\ color = lastSet
    /\ (op \in {"update_frame", "update_and_display_frame", "clear_frame"}
            /\ Len(Wire(trace)) >= 2)
          => Wire(trace)[1] = <<"cmd", 80>> /\ Wire(trace)[2] = <<"data", VcomByteOf(lastSet)>>
    /\ (op = "clear_frame" /\ result = "Ok")
          => \A i \in 9..(8 + FrameLen) : Wire(trace)[i] = <<"data", FillByteOf(lastSet)>>

C12_SetBackgroundColorPure ==
    /\ [](C12_ColourInUse)
    /\ [][op' = "set_background_color" =>
             /\ dc' = dc /\ rst' = rst /\ cs' = cs /\ asleep' = asleep
             /\ color' = lastSet' /\ trace' = <<>>]_vars

\* clear_frame has run to its end with a colour other than the default set.
C12_Witness ==
    /\ op = "clear_frame" /\ result = "Ok" /\ lastSet = "Green" /\ color = "Green"
    /\ Wire(trace)[2] = <<"data", 87>>
    /\ Wire(trace)[9] = <<"data", 34>>

(***************************************************************************)
(* InkyFrameShiftRegister (shift_register.rs): the busy source that reads  *)
(* the status byte of a shift register bit by bit.                         *)
(*                                                                         *)
(* Its steps are <<kind, x, "">>:                                          *)
(*   <<"latch", level, "">>    latch_pin.set_low() / set_high()            *)
(*   <<"clock", level, "">>    clock_pin.set_low() / set_high()            *)
(*   <<"delay_us", n, "">>     delay.delay_us(n)                           *)
(*   <<"let", 0, "">>          let mut result = 0u8                        *)
(*   <<"sample", 0, "">>       result <<= 1; result |= out_pin.is_high()   *)
(* and its trace holds <<kind, x>> for each step done, the level read for  *)
(* a sample, and <<"err", kind>> for the pin operation that failed.        *)
(***************************************************************************)
\* the variables of the display driver, which the other components leave alone
driverVars == <<color, dc, rst, cs, asleep, lastSet>>

IS_BUSY_FLAG == 7

\* `let mut bits = 8u8`: the number of turns of read_register's loop
RegisterBits == 8

\* one turn of the loop of read_register
read_turn ==
    << <<"sample", 0, "">>, <<"clock", 0, "">>, <<"delay_us", 1, "">>,
       <<"clock", 1, "">>, <<"delay_us", 1, "">> >>

\* InkyFrameShiftRegister::read_register
read_register ==
    << <<"latch", 0, "">>, <<"delay_us", 1, "">>, <<"latch", 1, "">>, <<"delay_us", 1, "">>,
       <<"let", 0, "">> >>
    \o Concat([i \in 1..RegisterBits |-> read_turn])

\* a loop body that fills the byte from its top bit downwards
shift_in_lsbFirst(r, high) == Shr(r, 1) + (IF high THEN 128 ELSE 0)

\* the loop body's `result <<= 1; if is_high { result |= 1 } else { result |= 0 }`
shift_in(r, high) == U8Or(U8Shl(r, 1), IF high THEN 1 ELSE 0)

\* what read_register returns: Err of the failed pin operation, or Ok(result)
read_register_result == IF lineErr THEN <<"Err">> ELSE <<"Ok", reg>>

\* InkyFrameShiftRegister::read_register_bit, applied to what read_register returned
read_register_bit(r, bit_index) ==
    IF r[1] = "Ok" THEN <<"Ok", U8And(r[2], U8Shl(1, bit_index))>> ELSE r

\* an is_busy that reports busy when the register cannot be read
is_busy_busyOnErr(r) == IF r[1] = "Ok" THEN r[2] = 0 ELSE TRUE

\* InkyFrameShiftRegister::is_busy, applied to what read_register_bit returned
is_busy(r) == IF r[1] = "Ok" THEN r[2] = 0 ELSE FALSE

\* the bit indexes read_register_bit is called with
BitIndexes == 0..(RegisterBits - 1)

\* InkyFrameShiftRegister::new
SRInit ==
    /\ color = DEFAULT_BACKGROUND_COLOR
    /\ dc = 0 /\ rst = 0 /\ cs = 1
    /\ asleep = FALSE
    /\ lastSet = DEFAULT_BACKGROUND_COLOR
    /\ op = "new"
    /\ arg = 0
    /\ todo = <<>>
    /\ result = "Ok"
    /\ trace = <<>>
    /\ lineErr = FALSE
    /\ reg = 0
    /\ ret = <<>>
    /\ display_buffer = <<>>
    /\ rotation = "Rotate0"
    /\ calls = 0

\* a caller enters operation o with bit index k
SRCall(o, k) ==
    /\ result # "Running"
    /\ op' = o
    /\ arg' = k
    /\ todo' = read_register
    /\ result' = "Running"
    /\ trace' = <<>>
    /\ lineErr' = FALSE
    /\ ret' = <<>>
    /\ UNCHANGED <<reg, driverVars, display_buffer, rotation, calls>>

ReadRegister == SRCall("read_register", 0)
ReadRegisterBit == \E k \in BitIndexes : SRCall("read_register_bit", k)
SRIsBusy == SRCall("is_busy", IS_BUSY_FLAG)
\* InkyFrame5_7::busy_wait called with the shift register as its busy_signal
SRBusyWait == SRCall("busy_wait", IS_BUSY_FLAG)

SRRunning == result = "Running" /\ todo # <<>>

\* latch_pin / clock_pin .set_low() / .set_high() returned Ok
SetPin ==
    /\ SRRunning
    /\ Head(todo)[1] \in {"latch", "clock"}
    /\ trace' = Append(trace, <<Head(todo)[1], Head(todo)[2]>>)
    /\ todo' = Tail(todo)
    /\ UNCHANGED <<op, arg, result, lineErr, reg, ret, driverVars, display_buffer, rotation, calls>>

\* a pin operation returned Err: `?` leaves read_register at once
PinErr ==
    /\ SRRunning
    /\ Head(todo)[1] \in {"latch", "clock", "sample"}
    /\ trace' = Append(trace, <<"err", Head(todo)[1]>>)
    /\ todo' = <<>>
    /\ lineErr' = TRUE
    /\ UNCHANGED <<op, arg, result, reg, ret, driverVars, display_buffer, rotation, calls>>

DelayUs ==
    /\ SRRunning
    /\ Head(todo)[1] = "delay_us"
    /\ trace' = Append(trace, <<"delay_us", Head(todo)[2]>>)
    /\ todo' = Tail(todo)
    /\ UNCHANGED <<op, arg, result, lineErr, reg, ret, driverVars, display_buffer, rotation, calls>>

LetResult ==
    /\ SRRunning
    /\ Head(todo)[1] = "let"
    /\ reg' = 0
    /\ todo' = Tail(todo)
    /\ UNCHANGED <<op, arg, result, trace, lineErr, ret, driverVars, display_buffer, rotation, calls>>

\* out_pin.is_high() returned Ok(high), the level the register drives
Sample ==
    /\ SRRunning
    /\ Head(todo)[1] = "sample"
    /\ \E high \in BOOLEAN :
          /\ reg' = shift_in(reg, high)
          /\ trace' = Append(trace, <<"sample", IF high THEN 1 ELSE 0>>)
    /\ todo' = Tail(todo)
    /\ UNCHANGED <<op, arg, result, lineErr, ret, driverVars, display_buffer, rotation, calls>>

\* what is_busy answers at the end of the read under way
is_busy_answer == is_busy(read_register_bit(read_register_result, IS_BUSY_FLAG))

\* busy_wait's `while busy_signal.is_busy() {}`: is_busy answered true and
\* the loop calls it again
BusyWaitAgain ==
    /\ op = "busy_wait"
    /\ result = "Running"
    /\ todo = <<>>
    /\ is_busy_answer
    /\ ret' = TRUE
    /\ todo' = read_register
    /\ trace' = <<>>
    /\ lineErr' = FALSE
    /\ UNCHANGED <<op, arg, result, reg, driverVars, display_buffer, rotation, calls>>

\* is_busy answered false: the loop ends and busy_wait returns
BusyWaitDone ==
    /\ op = "busy_wait"
    /\ result = "Running"
    /\ todo = <<>>
    /\ ~is_busy_answer
    /\ ret' = FALSE
    /\ result' = "Ok"
    /\ UNCHANGED <<op, arg, todo, trace, lineErr, reg, driverVars, display_buffer, rotation,
                   calls>>

\* the operation returns
SRReturn ==
    /\ op # "busy_wait"
    /\ result = "Running"
    /\ todo = <<>>
    /\ ret' = CASE op = "read_register"     -> read_register_result
                [] op = "read_register_bit" -> read_register_bit(read_register_result, arg)
                [] op = "is_busy"           -> is_busy_answer
    /\ result' = IF op # "is_busy" /\ lineErr THEN "Err" ELSE "Ok"
    /\ UNCHANGED <<op, arg, todo, trace, lineErr, reg, driverVars, display_buffer, rotation, calls>>

SRNext ==
    \/ ReadRegister
    \/ ReadRegisterBit
    \/ SRIsBusy
    \/ SRBusyWait
    \/ BusyWaitAgain
    \/ BusyWaitDone
    \/ SetPin
    \/ PinErr
    \/ DelayUs
    \/ LetResult
    \/ Sample
    \/ SRReturn

SpecSR == SRInit /\ [][SRNext]_vars

(***************************************************************************)
(* C13: the shift-register busy source toggles the latch line low then     *)
(* high, then samples the data line 8 times, each sample followed by one   *)
(* clock pulse (low then high), and assembles the samples most-significant *)
(* bit first, the first sample being bit 7 of the byte; is_busy() is true  *)
(* exactly when bit 7 of that byte is zero.                                *)
(***************************************************************************)
\* the levels sampled so far, in the order they were sampled
Samples(tr) ==
    LET s == SelectSeq(tr, LAMBDA e : e[1] = "sample") IN [i \in 1..Len(s) |-> s[i][2]]

\* the pin activity of a read that samples the levels bits
ReadShape(bits) ==
    << <<"latch", 0>>, <<"delay_us", 1>>, <<"latch", 1>>, <<"delay_us", 1>> >>
    \o Concat([i \in 1..Len(bits) |->
           << <<"sample", bits[i]>>, <<"clock", 0>>, <<"delay_us", 1>>,
              <<"clock", 1>>, <<"delay_us", 1>> >>])

\* the byte whose bit 7 is bits[1], bit 6 is bits[2], ... bit 0 is bits[8]
RECURSIVE MsbFirst(_)
MsbFirst(bits) ==
    IF bits = <<>> THEN 0 ELSE 2 * MsbFirst(SubSeq(bits, 1, Len(bits) - 1)) + bits[Len(bits)]

C13_ShiftRegisterRead ==
    op \in {"read_register", "read_register_bit", "is_busy"} =>
        /\ IsPrefix(SelectSeq(trace, LAMBDA e : e[1] # "err"), ReadShape(Samples(trace)))
        /\ (result # "Running" /\ ~lineErr) =>
              /\ Len(Samples(trace)) = 8
              /\ trace = ReadShape(Samples(trace))
              /\ reg = MsbFirst(Samples(trace))
              /\ Bit(reg, 7) = Samples(trace)[1]
              /\ op = "read_register" => ret = <<"Ok", reg>>
              /\ op = "read_register_bit" => ret = <<"Ok", Bit(reg, arg) * 2 ^ arg>>
              /\ op = "is_busy" => ret = (Bit(reg, 7) = 0)

C13_Witness ==
    /\ op = "is_busy" /\ result = "Ok" /\ ~lineErr
    /\ Samples(trace) = <<0, 1, 0, 0, 1, 1, 0, 1>>
    /\ reg = 77
    /\ ret = TRUE

(***************************************************************************)
(* InkyFrameDisplay (display/display.rs): the frame buffer, two pixels to  *)
(* a byte, and the rotation applied to the coordinates of a pixel drawn.   *)
(*                                                                         *)
(* draw_helper takes the panel's width and height as arguments; the model  *)
(* calls it with a small panel of FbWidth x FbHeight pixels, whose buffer  *)
(* holds FbWidth / 2 * FbHeight bytes.  The code's values are 600 and 448. *)
(* A pixel is <<x, y, colour>>, x and y being i32.                         *)
(***************************************************************************)
\* Half the width of the model's panel: the width is even, as WIDTH is.
FbHalfWidth == 2
FbHeight == 2
FbWidth == 2 * FbHalfWidth

\* The most calls made on one display.
MaxCalls == 2

DisplayRotation == {"Rotate0", "Rotate90", "Rotate180", "Rotate270"}

\* u32 subtraction, and whether it underflows.  Where it underflows a debug
\* build panics and a release build wraps to a value near 2^32, which as a
\* coordinate gives an index beyond any buffer: draw_helper writes nothing
\* in both builds, and the model keeps the fact in draw_helper_position.
U32Sub(a, b) == a - b
Wraps(a, b) == a < b

\* an outside_display that applies the bounds of the unrotated panel to every rotation
outside_display_noTranspose(p, width, height, rot) ==
    IF p[1] < 0 \/ p[2] < 0 THEN TRUE ELSE p[1] >= width \/ p[2] >= height

\* outside_display
outside_display(p, width, height, rot) ==
    IF p[1] < 0 \/ p[2] < 0
    THEN TRUE
    ELSE IF rot \in {"Rotate0", "Rotate180"}
         THEN p[1] >= width \/ p[2] >= height
         ELSE p[2] >= width \/ p[1] >= height

\* a find_rotation that turns the quarter rotations the other way round
find_rotation_counterClockwise(x, y, width, height, rot) ==
    CASE rot = "Rotate0"   -> <<x, y>>
      [] rot = "Rotate90"  -> <<y, U32Sub(U32Sub(height, 1), x)>>
      [] rot = "Rotate180" -> <<U32Sub(U32Sub(width, 1), x), U32Sub(U32Sub(height, 1), y)>>
      [] rot = "Rotate270" -> <<U32Sub(U32Sub(width, 1), y), x>>

\* a find_rotation whose half turn mirrors the columns only
find_rotation_mirror(x, y, width, height, rot) ==
    CASE rot = "Rotate0"   -> <<x, y>>
      [] rot = "Rotate90"  -> <<U32Sub(U32Sub(width, 1), y), x>>
      [] rot = "Rotate180" -> <<U32Sub(U32Sub(width, 1), x), y>>
      [] rot = "Rotate270" -> <<y, U32Sub(U32Sub(height, 1), x)>>

\* find_rotation
find_rotation(x, y, width, height, rot) ==
    CASE rot = "Rotate0"   -> <<x, y>>
      [] rot = "Rotate90"  -> <<U32Sub(U32Sub(width, 1), y), x>>
      [] rot = "Rotate180" -> <<U32Sub(U32Sub(width, 1), x), U32Sub(U32Sub(height, 1), y)>>
      [] rot = "Rotate270" -> <<y, U32Sub(U32Sub(height, 1), x)>>

\* whether a subtraction of find_rotation wraps (a debug build panics there)
find_rotation_wraps(x, y, width, height, rot) ==
    CASE rot = "Rotate0"   -> FALSE
      [] rot = "Rotate90"  -> Wraps(width, 1) \/ Wraps(U32Sub(width, 1), y)
      [] rot = "Rotate180" -> \/ Wraps(width, 1) \/ Wraps(U32Sub(width, 1), x)
                              \/ Wraps(height, 1) \/ Wraps(U32Sub(height, 1), y)
      [] rot = "Rotate270" -> Wraps(height, 1) \/ Wraps(U32Sub(height, 1), x)

\* a find_oct_position that steps a whole width of bytes from row to row
find_oct_position_fullStride(x, y, width, height, rot) ==
    LET new == find_rotation(x, y, width, height, rot)
    IN  << (new[1] \div 2) + width * new[2], new[1] % 2 = 0 >>

\* a find_oct_position that takes the high nibble for every column
find_oct_position_noParity(x, y, width, height, rot) ==
    LET new == find_rotation(x, y, width, height, rot)
    IN  << (new[1] \div 2) + (width \div 2) * new[2], TRUE >>

\* find_oct_position: <<index, upper>>
find_oct_position(x, y, width, height, rot) ==
    LET new == find_rotation(x, y, width, height, rot)
    IN  << (new[1] \div 2) + (width \div 2) * new[2], new[1] % 2 = 0 >>

\* a draw_helper that stores the colour without keeping the other nibble
draw_helper_overwrite(buf, rot, width, height, pixel) ==
    IF outside_display(pixel, width, height, rot)
    THEN buf
    ELSE LET pos == find_oct_position(pixel[1], pixel[2], width, height, rot)
             index == pos[1]
             color_nibble == IF pos[2] THEN U8Shl(get_nibble(pixel[3]), 4)
                             ELSE get_nibble(pixel[3])
         IN  IF find_rotation_wraps(pixel[1], pixel[2], width, height, rot)
                    \/ index >= Len(buf)
             THEN buf
             ELSE [buf EXCEPT ![index + 1] = color_nibble]

\* InkyFrameDisplay::draw_helper: the buffer it leaves.  The buffer's byte
\* of index i is buf[i + 1].
draw_helper(buf, rot, width, height, pixel) ==
    IF outside_display(pixel, width, height, rot)
    THEN buf
    ELSE LET pos == find_oct_position(pixel[1], pixel[2], width, height, rot)
             index == pos[1]
             mask == IF pos[2] THEN 15 ELSE 240
             color_nibble == IF pos[2] THEN U8Shl(get_nibble(pixel[3]), 4)
                             ELSE get_nibble(pixel[3])
         IN  IF find_rotation_wraps(pixel[1], pixel[2], width, height, rot)
                    \/ index >= Len(buf)
             THEN buf
             ELSE [buf EXCEPT ![index + 1] = U8Or(U8And(@, mask), color_nibble)]

\* what draw_helper computed on its way: the position it wrote to
draw_helper_position(rot, width, height, pixel) ==
    IF outside_display(pixel, width, height, rot)
    THEN <<"outside">>
    ELSE LET pos == find_oct_position(pixel[1], pixel[2], width, height, rot)
         IN  <<"at", pos[1], pos[2],
               find_rotation_wraps(pixel[1], pixel[2], width, height, rot)>>

\* a clear_buffer that leaves the first byte as it is
clear_buffer_skipFirst(buf, background_color) ==
    [i \in 1..Len(buf) |->
        IF i = 1 THEN buf[i] ELSE colors_byte(background_color, background_color)]

\* InkyFrameDisplay::clear_buffer
clear_buffer(buf, background_color) ==
    [i \in 1..Len(buf) |-> colors_byte(background_color, background_color)]

\* InkyFrameDisplay::set_rotation: the new value of self.rotation
set_rotation(old, r) == r

\* the coordinates callers draw at: the panel and a border around it
Coords == (0 - 1)..FbWidth

\* the colours callers draw pixels in: the codes 0 and 7, the colour the
\* buffer is filled with at construction, and one more
PixelColors == {"Black", "White", "Green", "HiZ"}

\* InkyFrameDisplay::default
FbInit ==
    /\ color = DEFAULT_BACKGROUND_COLOR
    /\ dc = 0 /\ rst = 0 /\ cs = 1
    /\ asleep = FALSE
    /\ lastSet = DEFAULT_BACKGROUND_COLOR
    /\ op = "default"
    /\ arg = <<>>
    /\ todo = <<>>
    /\ result = "Ok"
    /\ trace = <<>>
    /\ lineErr = FALSE
    /\ reg = 0
    /\ ret = <<>>
    /\ display_buffer = [i \in 1..((FbWidth \div 2) * FbHeight) |->
                            colors_byte(DEFAULT_BACKGROUND_COLOR, DEFAULT_BACKGROUND_COLOR)]
    /\ rotation = "Rotate0"
    /\ calls = 0

\* DrawTarget::draw_iter with one pixel: draw_helper(WIDTH, HEIGHT, pixel)
SetPixelOf(pixel) ==
    /\ op' = "set_pixel"
    /\ arg' = pixel
    /\ display_buffer' = draw_helper(display_buffer, rotation, FbWidth, FbHeight, pixel)
    /\ ret' = draw_helper_position(rotation, FbWidth, FbHeight, pixel)
    /\ result' = "Ok"
    /\ calls' = calls + 1
    /\ UNCHANGED <<rotation, todo, trace, lineErr, reg, driverVars>>

ClearBufferOf(c) ==
    /\ op' = "clear_buffer"
    /\ arg' = <<c>>
    /\ display_buffer' = clear_buffer(display_buffer, c)
    /\ ret' = <<>>
    /\ result' = "Ok"
    /\ calls' = calls + 1
    /\ UNCHANGED <<rotation, todo, trace, lineErr, reg, driverVars>>

SetRotationOf(r) ==
    /\ op' = "set_rotation"
    /\ arg' = <<r>>
    /\ rotation' = set_rotation(rotation, r)
    /\ ret' = <<>>
    /\ result' = "Ok"
    /\ calls' = calls + 1
    /\ UNCHANGED <<display_buffer, todo, trace, lineErr, reg, driverVars>>

SetPixel ==
    /\ calls < MaxCalls
    /\ \E x \in Coords, y \in Coords, c \in PixelColors : SetPixelOf(<<x, y, c>>)

ClearBuffer ==
    /\ calls < MaxCalls
    /\ \E c \in OctColor : ClearBufferOf(c)

SetRotation ==
    /\ calls < MaxCalls
    /\ \E r \in DisplayRotation : SetRotationOf(r)

FbNext == SetPixel \/ ClearBuffer \/ SetRotation

SpecFb == FbInit /\ [][FbNext]_vars

(***************************************************************************)
(* Reading the frame buffer: the cell of the panel a pixel is said to land *)
(* in, written down from the mapping of the specification.                 *)
(***************************************************************************)
HighNibble(b) == b \div 16
LowNibble(b) == b % 16

\* (x, y) lies on the panel as seen under rotation r
InBounds(x, y, r) ==
    /\ x >= 0 /\ y >= 0
    /\ r \in {"Rotate0", "Rotate180"} => x < FbWidth /\ y < FbHeight
    /\ r \in {"Rotate90", "Rotate270"} => y < FbWidth /\ x < FbHeight

\* the native cell <<nx, ny>> of caller coordinates (x, y) under rotation r
NativeCell(x, y, r) ==
    CASE r = "Rotate0"   -> <<x, y>>
      [] r = "Rotate90"  -> <<FbWidth - 1 - y, x>>
      [] r = "Rotate180" -> <<FbWidth - 1 - x, FbHeight - 1 - y>>
      [] r = "Rotate270" -> <<y, FbHeight - 1 - x>>

\* the byte of a native cell, counted from 1, and whether it is the high nibble
OwnerByte(cell) == (cell[1] \div 2) + (FbWidth \div 2) * cell[2] + 1
OwnerHigh(cell) == cell[1] % 2 = 0

\* the nibble of buffer buf that holds the native cell
NibbleAt(buf, cell) ==
    IF OwnerHigh(cell) THEN HighNibble(buf[OwnerByte(cell)]) ELSE LowNibble(buf[OwnerByte(cell)])
SiblingAt(buf, cell) ==
    IF OwnerHigh(cell) THEN LowNibble(buf[OwnerByte(cell)]) ELSE HighNibble(buf[OwnerByte(cell)])

(***************************************************************************)
(* C14: for every rotation, every in-bounds (x, y) and every colour c,     *)
(* from any buffer contents: after set_pixel(x, y, c) the nibble owning    *)
(* the pixel equals code(c), the sibling nibble of the same byte is        *)
(* unchanged, every other byte is unchanged and the rotation is unchanged; *)
(* a later write to the same pixel overwrites it.                          *)
(***************************************************************************)
C14_PixelWritten ==
    (op' = "set_pixel" /\ InBounds(arg'[1], arg'[2], rotation)) =>
        LET cell == NativeCell(arg'[1], arg'[2], rotation)
        IN  /\ OwnerByte(cell) \in 1..Len(display_buffer)
            /\ Len(display_buffer') = Len(display_buffer)
            /\ NibbleAt(display_buffer', cell) = get_nibble(arg'[3])
            /\ SiblingAt(display_buffer', cell) = SiblingAt(display_buffer, cell)
            /\ \A j \in 1..Len(display_buffer) :
                  j # OwnerByte(cell) => display_buffer'[j] = display_buffer[j]
            /\ rotation' = rotation

C14_SetPixel == [][C14_PixelWritten]_vars

\* the second call drew HiZ into a low nibble under 270 degrees
C14_Witness ==
    /\ op = "set_pixel" /\ calls = 2 /\ rotation = "Rotate270"
    /\ arg = <<1, 3, "HiZ">>
    /\ display_buffer = <<17, 23, 17, 17>>

(***************************************************************************)
(* C15: set_pixel maps caller coordinates with the rotation active at the  *)
(* call: 0 gives (x, y); 90 gives (width-1-y, x); 180 gives (width-1-x,    *)
(* height-1-y); 270 gives (y, height-1-x).  The byte written is            *)
(* nx/2 + (width/2)*ny, high nibble when nx is even, low nibble when nx is *)
(* odd.  set_rotation changes no buffer byte and affects only later        *)
(* set_pixel calls.                                                        *)
(***************************************************************************)
C15_PositionComputed ==
    (op = "set_pixel" /\ InBounds(arg[1], arg[2], rotation)) =>
        LET cell == NativeCell(arg[1], arg[2], rotation)
        IN  /\ ret[1] = "at"
            /\ ret[2] = OwnerByte(cell) - 1
            /\ ret[3] = (cell[1] % 2 = 0)

C15_ByteWritten ==
    /\ (op' = "set_pixel" /\ InBounds(arg'[1], arg'[2], rotation)) =>
          LET cell == NativeCell(arg'[1], arg'[2], rotation)
              code == get_nibble(arg'[3])
          IN  display_buffer' =
                  [display_buffer EXCEPT ![OwnerByte(cell)] =
                      IF cell[1] % 2 = 0 THEN 16 * code + LowNibble(@)
                      ELSE 16 * HighNibble(@) + code]
    /\ op' = "set_rotation" =>
          display_buffer' = display_buffer /\ rotation' = arg'[1]

C15_RotationMapping == [](C15_PositionComputed) /\ [][C15_ByteWritten]_vars

C15_Witness ==
    /\ op = "set_pixel" /\ rotation = "Rotate90"
    /\ arg = <<1, 2, "Green">>
    /\ ret = <<"at", 2, FALSE, FALSE>>
    /\ display_buffer[3] = 18

(***************************************************************************)
(* C16: an out-of-bounds set_pixel leaves the buffer byte for byte as it   *)
(* was and reports no error: under 0 and 180 degrees any (x, y) with       *)
(* x < 0, y < 0, x >= width or y >= height, under 90 and 270 any with      *)
(* x < 0, y < 0, y >= width or x >= height.  No subtraction of the         *)
(* coordinate mapping underflows for a coordinate that passes the check.   *)
(***************************************************************************)
OutOfBounds(x, y, r) ==
    \/ x < 0 \/ y < 0
    \/ r \in {"Rotate0", "Rotate180"} /\ (x >= FbWidth \/ y >= FbHeight)
    \/ r \in {"Rotate90", "Rotate270"} /\ (y >= FbWidth \/ x >= FbHeight)

C16_NoUnderflow ==
    op = "set_pixel" =>
        /\ ret[1] = "outside" <=> OutOfBounds(arg[1], arg[2], rotation)
        /\ ret[1] = "at" => ret[4] = FALSE /\ ret[2] < Len(display_buffer)

C16_Dropped ==
    (op' = "set_pixel" /\ OutOfBounds(arg'[1], arg'[2], rotation)) =>
        display_buffer' = display_buffer /\ rotation' = rotation /\ result' = "Ok"

C16_OutOfBounds == [](C16_NoUnderflow) /\ [][C16_Dropped]_vars

\* on the 4 x 2 panel turned by 90 degrees x = 2 is off the panel, though 2 < width
C16_Witness ==
    /\ op = "set_pixel" /\ rotation = "Rotate90" /\ result = "Ok"
    /\ arg = <<FbHeight, 0, "Black">>
    /\ ret = <<"outside">>
    /\ display_buffer = <<17, 17, 17, 17>>

(***************************************************************************)
(* C17: rotation by 180 degrees is a coordinate involution: for every      *)
(* in-bounds (x, y), set_pixel(x, y, c) under 180 addresses the cell that  *)
(* set_pixel(width-1-x, height-1-y, c) addresses under 0, so the mapping   *)
(* applied twice returns the original cell; (0,0) under 0 and              *)
(* (width-1, height-1) under 180 address the same cell, and vice versa.    *)
(***************************************************************************)
C17_SameCell ==
    (op' = "set_pixel" /\ rotation = "Rotate180" /\ InBounds(arg'[1], arg'[2], rotation)) =>
        LET mx == FbWidth - 1 - arg'[1]
            my == FbHeight - 1 - arg'[2]
            twice == find_rotation(mx, my, FbWidth, FbHeight, "Rotate180")
        IN  /\ display_buffer' =
                  draw_helper(display_buffer, "Rotate0", FbWidth, FbHeight, <<mx, my, arg'[3]>>)
            /\ ret' = draw_helper_position("Rotate0", FbWidth, FbHeight, <<mx, my, arg'[3]>>)
            /\ find_rotation(arg'[1], arg'[2], FbWidth, FbHeight, "Rotate180") = <<mx, my>>
            /\ twice = <<arg'[1], arg'[2]>>
            /\ (arg'[1] = 0 /\ arg'[2] = 0) => ret'[2] = Len(display_buffer) - 1 /\ ~ret'[3]
            /\ (mx = 0 /\ my = 0) => ret'[2] = 0 /\ ret'[3]

C17_HalfTurn == [][C17_SameCell]_vars

C17_Witness ==
    /\ op = "set_pixel" /\ rotation = "Rotate180"
    /\ arg = <<0, 0, "Black">>
    /\ ret = <<"at", 3, FALSE, FALSE>>
    /\ display_buffer[4] = 16

(***************************************************************************)
(* The packing scenario: on a display that has been drawn on, under        *)
(* rotation 0, clear_buffer(White), then a Black pixel at (0,0), then a    *)
(* Green pixel at (1,0).  calls counts the steps of the scenario done.     *)
(***************************************************************************)
\* the bytes of a display drawn on in Black and HiZ
DrawnBytes == {colors_byte(a, b) : a \in {"Black", "HiZ"}, b \in {"Black", "HiZ"}}

\* the buffers of such a display
RECURSIVE DrawnBuffers(_)
DrawnBuffers(n) ==
    IF n = 0 THEN {<<>>}
    ELSE {Append(b, x) : b \in DrawnBuffers(n - 1), x \in DrawnBytes}

ScenarioInit ==
    /\ color = DEFAULT_BACKGROUND_COLOR
    /\ dc = 0 /\ rst = 0 /\ cs = 1
    /\ asleep = FALSE
    /\ lastSet = DEFAULT_BACKGROUND_COLOR
    /\ op = "default"
    /\ arg = <<>>
    /\ todo = <<>>
    /\ result = "Ok"
    /\ trace = <<>>
    /\ lineErr = FALSE
    /\ reg = 0
    /\ ret = <<>>
    /\ display_buffer \in DrawnBuffers((FbWidth \div 2) * FbHeight)
    /\ rotation = "Rotate0"
    /\ calls = 0

ScenarioClear == calls = 0 /\ ClearBufferOf("White")
ScenarioBlack == calls = 1 /\ SetPixelOf(<<0, 0, "Black">>)
ScenarioGreen == calls = 2 /\ SetPixelOf(<<1, 0, "Green">>)

ScenarioNext == ScenarioClear \/ ScenarioBlack \/ ScenarioGreen

SpecScenario == ScenarioInit /\ [][ScenarioNext]_vars

(***************************************************************************)
(* C18: on a 4 x 2 buffer under rotation 0, clear(White) sets every byte   *)
(* to 0x11; then set_pixel(0,0,Black) makes the first byte 0x01 and leaves *)
(* every other byte 0x11; then set_pixel(1,0,Green) makes the first byte   *)
(* 0x02 and leaves every other byte 0x11.                                  *)
(***************************************************************************)
\* the buffer holds first in its first byte and 0x11 in every other byte
FirstThenWhite(first) ==
    /\ display_buffer # <<>>
    /\ display_buffer[1] = first
    /\ \A i \in 2..Len(display_buffer) : display_buffer[i] = 17

C18_PackingScenario ==
    /\ (op = "clear_buffer" /\ arg = <<"White">>) => FirstThenWhite(17)
    /\ (op = "set_pixel" /\ arg = <<0, 0, "Black">>) => FirstThenWhite(1)
    /\ (op = "set_pixel" /\ arg = <<1, 0, "Green">>) => FirstThenWhite(2)

C18_Witness ==
    /\ op = "set_pixel" /\ arg = <<1, 0, "Green">> /\ calls = 3
    /\ rotation = "Rotate0"
    /\ display_buffer = <<2, 17, 17, 17>>

(***************************************************************************)
(* OctColor (display/color.rs): the colour functions, each applied once to *)
(* an input drawn at the start.  A Result is <<"Ok", v>> or <<"Err", e>>,  *)
(* e being the nibble OutOfColorRangeParseError carries.                   *)
(***************************************************************************)
\* a from_nibble that matches on the whole of its argument
from_nibble_noMask(nibble) ==
    CASE nibble = 0 -> <<"Ok", "Black">>
      [] nibble = 1 -> <<"Ok", "White">>
      [] nibble = 2 -> <<"Ok", "Green">>
      [] nibble = 3 -> <<"Ok", "Blue">>
      [] nibble = 4 -> <<"Ok", "Red">>
      [] nibble = 5 -> <<"Ok", "Yellow">>
      [] nibble = 6 -> <<"Ok", "Orange">>
      [] nibble = 7 -> <<"Ok", "HiZ">>
      [] OTHER      -> <<"Err", nibble>>

\* OctColor::from_nibble
from_nibble(nibble) ==
    LET e == U8And(nibble, 15)
    IN  CASE e = 0 -> <<"Ok", "Black">>
          [] e = 1 -> <<"Ok", "White">>
          [] e = 2 -> <<"Ok", "Green">>
          [] e = 3 -> <<"Ok", "Blue">>
          [] e = 4 -> <<"Ok", "Red">>
          [] e = 5 -> <<"Ok", "Yellow">>
          [] e = 6 -> <<"Ok", "Orange">>
          [] e = 7 -> <<"Ok", "HiZ">>
          [] OTHER -> <<"Err", e>>

\* a split_byte that returns the low nibble's colour first
split_byte_lowFirst(byte) ==
    LET low == from_nibble(U8And(byte, 15))
        high == from_nibble(U8And(Shr(byte, 4), 15))
    IN  IF low[1] = "Err" THEN low
        ELSE IF high[1] = "Err" THEN high
        ELSE <<"Ok", <<low[2], high[2]>>>>

\* OctColor::split_byte: each `?` returns the error of the nibble it follows
split_byte(byte) ==
    LET low == from_nibble(U8And(byte, 15))
        high == from_nibble(U8And(Shr(byte, 4), 15))
    IN  IF low[1] = "Err" THEN low
        ELSE IF high[1] = "Err" THEN high
        ELSE <<"Ok", <<high[2], low[2]>>>>

\* OctColor::rgb
rgb(c) ==
    CASE c = "White"  -> <<255, 255, 255>>
      [] c = "Black"  -> <<0, 0, 0>>
      [] c = "Green"  -> <<0, 255, 0>>
      [] c = "Blue"   -> <<0, 0, 255>>
      [] c = "Red"    -> <<255, 0, 0>>
      [] c = "Yellow" -> <<255, 255, 0>>
      [] c = "Orange" -> <<255, 128, 0>>
      [] c = "HiZ"    -> <<128, 128, 128>>

\* the array `colors` of the From<Rgb..> conversions
colors == <<"Black", "White", "Green", "Blue", "Red", "Yellow", "Orange", "HiZ">>

\* the key of min_by_key: the squared distance, in i32, of colour c to the
\* channel values p.r(), p.g(), p.b()
dist(c, p) ==
    (rgb(c)[1] - p[1]) ^ 2 + (rgb(c)[2] - p[2]) ^ 2 + (rgb(c)[3] - p[3]) ^ 2

\* Iterator::min_by_key over colors[i..], best being the minimum so far;
\* an element replaces it when its key is smaller (firstWins) or not greater
RECURSIVE MinFold(_, _, _, _)
MinFold(p, i, best, firstWins) ==
    IF i > Len(colors) THEN best
    ELSE MinFold(p, i + 1,
                 IF dist(colors[i], p) < dist(best, p)
                    \/ (~firstWins /\ dist(colors[i], p) = dist(best, p))
                 THEN colors[i] ELSE best,
                 firstWins)

\* a min_by_key that returns the last of several equal minima
min_by_key_lastMin(p) == MinFold(p, 2, colors[1], FALSE)

\* colors.iter().map(..).min_by_key(|(_c, dist)| *dist): of several equal
\* minima Iterator::min_by_key returns the first
min_by_key(p) == MinFold(p, 2, colors[1], TRUE)

\* impl From<Rgb888> / From<Rgb565> / From<Rgb555> for OctColor, applied to
\* the channel values <<p.r(), p.g(), p.b()>>: the three bodies are the same
from_rgb(p) ==
    LET found == {i \in 1..Len(colors) : rgb(colors[i]) = p}
    IN  IF found # {}
        THEN colors[CHOOSE i \in found : \A j \in found : i <= j]
        ELSE min_by_key(p)

\* the channel values of the Rgb888 inputs: the palette's values, the values
\* half way between two of them and their neighbours
ChannelSamples == {0, 10, 64, 127, 128, 129, 191, 192, 255}

\* the values of a channel of 5 and of 6 bits the inputs are drawn from:
\* the least two, the greatest two and the two in the middle
Channel5 == {0, 1, 15, 16, 30, 31}
Channel6 == {0, 1, 31, 32, 62, 63}

\* the values of a u8
U8 == 0..255

\* the inputs: two colours, a byte, or the channel values of an Rgb888,
\* an Rgb565 or an Rgb555
ColorInputs ==
    {<<"colors", a, b>> : a \in OctColor, b \in OctColor}
    \cup {<<"byte", v>> : v \in U8}
    \cup {<<"rgb888", <<r, g, b>>>> : r \in ChannelSamples, g \in ChannelSamples,
                                     b \in ChannelSamples}
    \cup {<<"rgb565", <<r, g, b>>>> : r \in Channel5, g \in Channel6, b \in Channel5}
    \cup {<<"rgb555", <<r, g, b>>>> : r \in Channel5, g \in Channel5, b \in Channel5}

ColorInit ==
    /\ color = DEFAULT_BACKGROUND_COLOR
    /\ dc = 0 /\ rst = 0 /\ cs = 1
    /\ asleep = FALSE
    /\ lastSet = DEFAULT_BACKGROUND_COLOR
    /\ op = "input"
    /\ arg \in ColorInputs
    /\ todo = <<>>
    /\ result = "Ok"
    /\ trace = <<>>
    /\ lineErr = FALSE
    /\ reg = 0
    /\ ret = <<>>
    /\ display_buffer = <<>>
    /\ rotation = "Rotate0"
    /\ calls = 0

\* function f is applied to the input of kind k and returns v
Apply(f, k, v) ==
    /\ op = "input"
    /\ arg[1] = k
    /\ op' = f
    /\ ret' = v
    /\ UNCHANGED <<arg, todo, result, trace, lineErr, reg, display_buffer, rotation, calls,
                   driverVars>>

GetNibble == Apply("get_nibble", "colors", get_nibble(arg[2]))
ColorsByte == Apply("colors_byte", "colors", colors_byte(arg[2], arg[3]))
FromNibble == Apply("from_nibble", "byte", from_nibble(arg[2]))
SplitByte == Apply("split_byte", "byte", split_byte(arg[2]))
\* from_nibble(a.get_nibble())
NibbleRoundTrip == Apply("from_nibble(get_nibble)", "colors", from_nibble(get_nibble(arg[2])))
\* split_byte(colors_byte(a, b))
ByteRoundTrip == Apply("split_byte(colors_byte)", "colors", split_byte(colors_byte(arg[2], arg[3])))

FromRgb888 == Apply("from_rgb888", "rgb888", from_rgb(arg[2]))
FromRgb565 == Apply("from_rgb565", "rgb565", from_rgb(arg[2]))
FromRgb555 == Apply("from_rgb555", "rgb555", from_rgb(arg[2]))

ColorNext ==
    \/ FromRgb888
    \/ FromRgb565
    \/ FromRgb555
    \/ GetNibble
    \/ ColorsByte
    \/ FromNibble
    \/ SplitByte
    \/ NibbleRoundTrip
    \/ ByteRoundTrip

SpecColor == ColorInit /\ [][ColorNext]_vars

(***************************************************************************)
(* C19: colour packing round-trips: for all colours a and b,               *)
(* from_nibble(get_nibble(a)) = a, the eight codes 0x00..0x07 are pairwise *)
(* distinct, colors_byte(a, b) = (code(a) << 4) | code(b), and             *)
(* split_byte(colors_byte(a, b)) = Ok((a, b)), a from the high nibble and  *)
(* b from the low one; HiZ (0x07) round-trips as itself.                   *)
(***************************************************************************)
\* the codes of the specification's colour table
CodeOf ==
    [c \in OctColor |->
        CASE c = "Black" -> 0 [] c = "White" -> 1 [] c = "Green" -> 2 [] c = "Blue" -> 3
          [] c = "Red" -> 4 [] c = "Yellow" -> 5 [] c = "Orange" -> 6 [] c = "HiZ" -> 7]

C19_PackingRoundTrip ==
    /\ op = "get_nibble" =>
          /\ ret = CodeOf[arg[2]]
          /\ \A c \in OctColor : c # arg[2] => get_nibble(c) # ret
          /\ ret \in 0..7
    /\ op = "from_nibble(get_nibble)" => ret = <<"Ok", arg[2]>>
    /\ op = "colors_byte" =>
          /\ ret = 16 * CodeOf[arg[2]] + CodeOf[arg[3]]
          /\ HighNibble(ret) = CodeOf[arg[2]] /\ LowNibble(ret) = CodeOf[arg[3]]
    /\ op = "split_byte(colors_byte)" => ret = <<"Ok", <<arg[2], arg[3]>>>>

C19_Witness ==
    /\ op = "split_byte(colors_byte)"
    /\ arg = <<"colors", "HiZ", "Orange">>
    /\ ret = <<"Ok", <<"HiZ", "Orange">>>>

(***************************************************************************)
(* C20: from_nibble(v) considers only the low 4 bits of v: it fails with   *)
(* OutOfRange(n), n = v & 0x0F, exactly when n is in 8..15 and succeeds    *)
(* for every other input; split_byte(byte) fails if and only if at least   *)
(* one of the two nibbles of byte is in 8..15.                             *)
(***************************************************************************)
C20_OutOfRange ==
    /\ op = "from_nibble" =>
          LET n == arg[2] % 16
          IN  IF n \in 8..15 THEN ret = <<"Err", n>>
              ELSE ret[1] = "Ok" /\ CodeOf[ret[2]] = n
    /\ op = "split_byte" =>
          (ret[1] = "Err" <=> (LowNibble(arg[2]) \in 8..15 \/ HighNibble(arg[2]) \in 8..15))

\* a byte above 0x0f whose low nibble is out of range
C20_Witness ==
    /\ op = "from_nibble"
    /\ arg = <<"byte", 156>>
    /\ ret = <<"Err", 12>>

(***************************************************************************)
(* C21: nearest(rgb) for an 8-bit triple is total and deterministic: a     *)
(* triple equal to the fixed triple of a palette colour gives that colour; *)
(* any other gives the palette colour of least squared Euclidean distance, *)
(* and of several at the least distance the earliest in the order Black,   *)
(* White, Green, Blue, Red, Yellow, Orange, HiZ.  nearest((0,0,0)) and     *)
(* nearest((10,10,10)) are Black, nearest((255,128,0)) is Orange.          *)
(***************************************************************************)
\* the palette of the specification and the place of a colour in its order
PaletteTriple ==
    [c \in OctColor |->
        CASE c = "Black" -> <<0, 0, 0>>       [] c = "White" -> <<255, 255, 255>>
          [] c = "Green" -> <<0, 255, 0>>     [] c = "Blue" -> <<0, 0, 255>>
          [] c = "Red" -> <<255, 0, 0>>       [] c = "Yellow" -> <<255, 255, 0>>
          [] c = "Orange" -> <<255, 128, 0>>  [] c = "HiZ" -> <<128, 128, 128>>]

SquaredDistance(c, p) ==
    (PaletteTriple[c][1] - p[1]) * (PaletteTriple[c][1] - p[1])
    + (PaletteTriple[c][2] - p[2]) * (PaletteTriple[c][2] - p[2])
    + (PaletteTriple[c][3] - p[3]) * (PaletteTriple[c][3] - p[3])

\* c is the colour the specification's nearest gives for p
IsNearest(c, p) ==
    IF \E d \in OctColor : PaletteTriple[d] = p
    THEN PaletteTriple[c] = p
    ELSE /\ \A d \in OctColor : SquaredDistance(c, p) <= SquaredDistance(d, p)
         /\ \A d \in OctColor :
               CodeOf[d] < CodeOf[c] => SquaredDistance(d, p) > SquaredDistance(c, p)

C21_Nearest ==
    op = "from_rgb888" =>
        /\ ret \in OctColor
        /\ IsNearest(ret, arg[2])
        /\ arg[2] = <<0, 0, 0>> => ret = "Black"
        /\ arg[2] = <<10, 10, 10>> => ret = "Black"
        /\ arg[2] = <<255, 128, 0>> => ret = "Orange"

\* as far from Red as from Orange: the earlier of the two is returned
C21_Witness ==
    /\ op = "from_rgb888"
    /\ arg = <<"rgb888", <<255, 64, 0>>>>
    /\ SquaredDistance("Red", arg[2]) = SquaredDistance("Orange", arg[2])
    /\ ret = "Red"

(***************************************************************************)
(* C25: conversion from Rgb565 and Rgb555 gives the palette colour nearest *)
(* to the colour the value denotes, consistently with the 8-bit            *)
(* conversion: full-intensity white (every channel at its maximum) gives   *)
(* White, full-intensity red gives Red, and every palette colour expressed *)
(* at reduced depth gives the palette colour its 8-bit form gives.         *)
(***************************************************************************)
\* the 8-bit triple t at the depth of rbits, gbits and rbits bits a channel
AtDepth(t, rbits, gbits) ==
    <<Shr(t[1], 8 - rbits), Shr(t[2], 8 - gbits), Shr(t[3], 8 - rbits)>>

C25_ReducedDepth ==
    /\ op = "from_rgb565" =>
          /\ arg[2] = <<31, 63, 31>> => ret = "White"
          /\ arg[2] = <<31, 0, 0>> => ret = "Red"
          /\ \A c \in OctColor : arg[2] = AtDepth(PaletteTriple[c], 5, 6) => ret = c
    /\ op = "from_rgb555" =>
          /\ arg[2] = <<31, 31, 31>> => ret = "White"
          /\ arg[2] = <<31, 0, 0>> => ret = "Red"
          /\ \A c \in OctColor : arg[2] = AtDepth(PaletteTriple[c], 5, 5) => ret = c

(***************************************************************************)
(* C22: the controller follows Reset, Initialized, Idle, Updating,         *)
(* Displaying, then PowerOff or Asleep, and leaves Asleep only on wake:    *)
(* after sleep() has returned, update_frame, display_frame, clear_frame    *)
(* and power_off transmit no command or payload byte until wake_up() has   *)
(* reset and initialized the panel again.                                  *)
(***************************************************************************)
C22_NoTrafficAsleep ==
    (asleep /\ op \in {"update_frame", "display_frame", "update_and_display_frame",
                       "clear_frame", "power_off"})
        => ~HasByte(trace)

(***************************************************************************)
(* C23: for every rotation and every (x, y) that passes the bounds check   *)
(* the byte index nx/2 + (width/2)*ny is less than the buffer length       *)
(* width*height/2, so the branch that drops a write beyond the buffer is   *)
(* never taken for the panel's constants and a pixel that passes the       *)
(* bounds check is always written.                                         *)
(***************************************************************************)
\* the corners of the panel of WIDTH x HEIGHT pixels as seen under rotation r
Corners(r) ==
    IF r \in {"Rotate0", "Rotate180"}
    THEN {<<x, y>> : x \in {0, WIDTH - 1}, y \in {0, HEIGHT - 1}}
    ELSE {<<x, y>> : x \in {0, HEIGHT - 1}, y \in {0, WIDTH - 1}}

C23_IndexInBuffer ==
    (op = "set_pixel" /\ ret[1] = "at") =>
        /\ Len(display_buffer) = (FbWidth * FbHeight) \div 2
        /\ ret[2] >= 0 /\ ret[2] < (FbWidth * FbHeight) \div 2
        /\ (IF ret[3] THEN HighNibble(display_buffer[ret[2] + 1])
            ELSE LowNibble(display_buffer[ret[2] + 1])) = get_nibble(arg[3])
        /\ \A p \in Corners(rotation) :
              /\ ~outside_display(p, WIDTH, HEIGHT, rotation)
              /\ find_oct_position(p[1], p[2], WIDTH, HEIGHT, rotation)[1]
                    < (WIDTH \div 2) * HEIGHT

\* the pixel of the last byte under 270 degrees
C23_Witness ==
    /\ op = "set_pixel" /\ rotation = "Rotate270"
    /\ arg = <<0, 3, "Black">>
    /\ ret = <<"at", 3, FALSE, FALSE>>
    /\ display_buffer[4] = 16

(***************************************************************************)
(* C24: under each rotation the pixel addressing is one-to-one and onto:   *)
(* two distinct in-bounds coordinates never address the same (byte,        *)
(* nibble) cell and every nibble of the buffer is addressed by exactly one *)
(* in-bounds coordinate, so writing one pixel never changes the stored     *)
(* colour of any other pixel.                                              *)
(***************************************************************************)
\* the coordinates that pass the bounds check under rotation r
Passing(r) ==
    {p \in Coords \X Coords : ~outside_display(p, FbWidth, FbHeight, r)}

\* the cell <<index, upper>> the code addresses for p under rotation r
CellOf(p, r) == find_oct_position(p[1], p[2], FbWidth, FbHeight, r)

\* the colour code stored in cell <<index, upper>> of buffer buf
StoredAt(buf, cell) ==
    IF cell[2] THEN HighNibble(buf[cell[1] + 1]) ELSE LowNibble(buf[cell[1] + 1])

\* The addressing depends on the rotation only: it is stated for the
\* rotation of a new display and for each rotation as it is set.
C24_OneToOneOnto ==
    op \in {"default", "set_rotation"} =>
        LET passing == Passing(rotation)
            cells == {CellOf(p, rotation) : p \in passing}
        IN  \* no two of them share a cell
            /\ Cardinality(cells) = Cardinality(passing)
            \* and their cells are the nibbles of the buffer, all of them
            /\ cells = (0..(Len(display_buffer) - 1)) \X BOOLEAN

\* Every cell but the one the call addressed, which by the above are the
\* cells of the other pixels, keeps its colour.
C24_OthersKept ==
    op' = "set_pixel" =>
        IF ret'[1] = "outside"
        THEN display_buffer' = display_buffer
        ELSE /\ \A i \in 0..(Len(display_buffer) - 1) :
                    i # ret'[2] => display_buffer'[i + 1] = display_buffer[i + 1]
             /\ StoredAt(display_buffer', <<ret'[2], ~ret'[3]>>)
                    = StoredAt(display_buffer, <<ret'[2], ~ret'[3]>>)

C24_Bijection == [](C24_OneToOneOnto) /\ [][C24_OthersKept]_vars

\* a second pixel drawn beside the first, in the same byte
C24_Witness ==
    /\ op = "set_pixel" /\ rotation = "Rotate0" /\ calls = 2
    /\ arg = <<3, 0, "HiZ">>
    /\ ret = <<"at", 1, FALSE, FALSE>>
    /\ display_buffer = <<17, 7, 17, 17>>

(***************************************************************************)
(* C26: when a pin operation fails during the shift-register read (latch,  *)
(* clock or data line), read_register stops at that step and returns the   *)
(* error, and is_busy() then reports not-busy; a busy-wait polling the     *)
(* failing shift register ends on that poll, and the controller goes on to *)
(* its next command as if the panel were idle.                             *)
(***************************************************************************)
C26_StopsAtFailure ==
    lineErr =>
        /\ todo = <<>>
        /\ trace # <<>> /\ Last(trace)[1] = "err"
        /\ Last(trace)[2] \in {"latch", "clock", "sample"}
        /\ \A i \in 1..(Len(trace) - 1) : trace[i][1] # "err"
        /\ (op \in {"read_register", "read_register_bit"} /\ result # "Running")
              => result = "Err" /\ ret = <<"Err">>
        /\ (op \in {"is_busy", "busy_wait"} /\ result # "Running")
              => result = "Ok" /\ ret = FALSE

\* the step after the failure is the return, not another poll
C26_EndsOnThatPoll ==
    (lineErr /\ result = "Running") =>
        /\ result' # "Running"
        /\ trace' = trace /\ todo' = <<>>
        /\ op \in {"is_busy", "busy_wait"} => ret' = FALSE

C26_FailingReadIsIdle == [](C26_StopsAtFailure) /\ [][C26_EndsOnThatPoll]_vars

\* busy_wait has returned on a poll whose clock line failed after two samples of busy
C26_Witness ==
    /\ op = "busy_wait" /\ result = "Ok" /\ lineErr
    /\ ret = FALSE
    /\ Samples(trace) = <<0, 0>>
    /\ Last(trace) = <<"err", "clock">>

(***************************************************************************)
(* C27: in the chip-select variant of the interface, chip-select is low    *)
(* only for the duration of a single bus write: whenever                   *)
(* DisplayInterface::write returns, with success or with a bus error,      *)
(* chip-select is high again, so after any sequence of cmd / data /        *)
(* data_x_times calls the chip-select line is deasserted.                  *)
(***************************************************************************)
\* HasByte: write has been called, its bus write accepted or refused
C27_ChipSelectReleased ==
    (op \in {"cmd", "data", "cmd_with_data", "data_x_times"} /\ result # "Running"
        /\ HasByte(trace))
        => cs = 1

====
